---- MODULE Spec2Model ----
(***************************************************************************)
(* The dialogue engine of src/main.py: the process-wide session store      *)
(* user_sessions and the handler route_request, which advances one user's  *)
(* session by one message.  The language model behind classify_intent and  *)
(* extract_fields and the HTTP endpoint behind requests.post are the       *)
(* environment: their answers are chosen nondeterministically from small   *)
(* catalogues.  A turn is one atomic step: route_request is a coroutine     *)
(* with no await in it.  Conversations are taken one after the other (see  *)
(* Serial); within one, every sequence of messages and answers is taken.   *)
(*                                                                         *)
(* Text that the code normalises (the message, the classifier's label) is  *)
(* a sequence of one-character strings, so that strip() and lower() are    *)
(* computed.  Identities and field names are never transformed and are     *)
(* plain strings.  A JSON value is a record [tag, val]; Python truthiness  *)
(* is the operator Truthy.                                                 *)
(***************************************************************************)
EXTENDS Integers, Sequences, FiniteSets, TLC

VARIABLES
    user_sessions,    \* main.py:30  dict: user identity -> session
    before,           \* user_sessions as the last turn found it
    request,          \* the last turn's input: user and normalised message
    result,           \* the last turn's returned JSON body
    calls,            \* collaborators invoked during the last turn
    label,            \* what the classifier answered in the last turn
    new_fields,       \* what extract_fields did in the last turn
    posted,           \* requests.post calls of the last turn: url, json, outcome
    stored_at_call,   \* user_sessions as each collaborator call of the last turn found it
    confirm_returned, \* history: users that were ever returned `confirm`
    accepted,         \* requests the server holds whose handler has not started
    running,          \* handlers in progress, each with its locals (main.py:71-78)
    session_read      \* the session the last turn's handler read at main.py:74

turn_vars == <<user_sessions, before, request, result, calls, label, new_fields,
               posted, stored_at_call, confirm_returned>>

vars == <<user_sessions, before, request, result, calls, label, new_fields,
          posted, stored_at_call, confirm_returned, accepted, running, session_read>>

-----------------------------------------------------------------------------
(* Bounds of the model. *)

\* number of distinct non-empty strings the extractor may put in a field
MaxValues == 2

\* number of requests the server may hold before their handlers start
MaxAccepted == 2

-----------------------------------------------------------------------------
(* Text: str.strip() and str.lower() on sequences of characters. *)

UpperCase == <<"A","B","C","D","E","F","G","H","I","J","K","L","M",
               "N","O","P","Q","R","S","T","U","V","W","X","Y","Z">>
LowerCase == <<"a","b","c","d","e","f","g","h","i","j","k","l","m",
               "n","o","p","q","r","s","t","u","v","w","x","y","z">>
Whitespace == {" ", "\t", "\n", "\r"}

LowerChar(c) ==
    IF \E i \in 1..Len(UpperCase) : UpperCase[i] = c
    THEN LowerCase[CHOOSE i \in 1..Len(UpperCase) : UpperCase[i] = c]
    ELSE c

lower(s) == [i \in 1..Len(s) |-> LowerChar(s[i])]

strip(s) ==
    LET keep == {i \in 1..Len(s) : s[i] \notin Whitespace}
    IN  IF keep = {} THEN <<>>
        ELSE LET lo == CHOOSE i \in keep : \A j \in keep : i <= j
                 hi == CHOOSE i \in keep : \A j \in keep : j <= i
             IN  SubSeq(s, lo, hi)

\* main.py:72  data.message.strip().lower();  main.py:50 likewise
normalise(s) == lower(strip(s))

Range(s) == {s[i] : i \in 1..Len(s)}

-----------------------------------------------------------------------------
(* Program constants. *)

onboarding    == <<"o","n","b","o","a","r","d","i","n","g">>
leave_request == <<"l","e","a","v","e","_","r","e","q","u","e","s","t">>
pulse_check   == <<"p","u","l","s","e","_","c","h","e","c","k">>

WEBHOOKS ==
    leave_request :> "https://starfish-special-bulldog.ngrok-free.app/webhook/leave-request" @@
    onboarding    :> "https://starfish-special-bulldog.ngrok-free.app/webhook/onboarding" @@
    pulse_check   :> "https://starfish-special-bulldog.ngrok-free.app/webhook/pulse-check"

REQUIRED_FIELDS ==
    onboarding    :> <<"employee_id", "first_name", "last_name", "email",
                       "department", "role", "start_date", "manager_email">> @@
    leave_request :> <<"employee_id", "start_date", "end_date", "reason">> @@
    pulse_check   :> <<>>

affirmative_messages ==
    { <<"y","e","s">>,
      <<"c","o","n","f","i","r","m">>,
      <<"y","e","s"," ","p","l","e","a","s","e">>,
      <<"s","u","b","m","i","t">> }

negative_messages ==
    { <<"n","o">>,
      <<"c","a","n","c","e","l">>,
      <<"n","o","t"," ","n","o","w">> }

casual_messages ==
    { <<"h","i">>,
      <<"h","e","l","l","o">>,
      <<"h","e","y">>,
      <<"y","o">>,
      <<"h","o","w"," ","a","r","e"," ","y","o","u">>,
      <<"g","o","o","d"," ","m","o","r","n","i","n","g">>,
      <<"g","o","o","d"," ","a","f","t","e","r","n","o","o","n">> }

\* Python's None as the intent of a default session.  It is no sequence of
\* characters, so no label the classifier returns equals it.
None == <<"None">>

-----------------------------------------------------------------------------
(* JSON values and Python truthiness. *)

Str(s) == [tag |-> "str", val |-> s]
Null   == [tag |-> "null", val |-> ""]

\* `if v` / `not v` on a JSON string or null
Truthy(v) == v.tag = "str" /\ v.val # ""

\* the empty dict {}
EmptyDict == [k \in {} |-> Null]

\* d.get(k): the value, or None when the key is absent
Get(d, k) == IF k \in DOMAIN d THEN d[k] ELSE Null

\* d with d[k] = v assigned
Assign(d, k, v) == [x \in DOMAIN d \cup {k} |-> IF x = k THEN v ELSE d[x]]

-----------------------------------------------------------------------------
(* The environment: callers, the language model, the webhook endpoint. *)

\* user identities (ChatbotInput.user is any str, the empty one included)
Users == {"alice@co", ""}

\* raw message texts (ChatbotInput.message), before normalisation
RawMessages ==
    { <<" ","Y","e","s"," ">>,                      \* " Yes "
      <<"N","o","\n">>,                             \* "No\n"
      <<"H","e","l","l","o"," ">>,                  \* "Hello "
      <<"s","u","b","m","i","t"," ","l","e","a","v","e">> }   \* "submit leave"

ValuePool == <<"v1", "v2", "v3", "v4">>
TruthyStrings == {ValuePool[i] : i \in 1..MaxValues}
FalsyValues == {Null, Str("")}
Values == {Str(s) : s \in TruthyStrings} \cup FalsyValues

\* The text the chat completion returns to classify_intent, or the call raising.
ClassifierOutcomes ==
    { [kind |-> "content", text |-> onboarding],
      [kind |-> "content", text |-> <<" ","L","e","a","v","e","_","R","e","q","u","e","s","t","\n">>],
      [kind |-> "content", text |-> pulse_check],
      [kind |-> "content", text |-> <<"p","a","y","r","o","l","l">>],
      [kind |-> "raise",   text |-> <<>>] }

\* the field of the schema that is answered on its own, or left out of an
\* answer: the first one
ProbeKeys(intent) ==
    LET req == REQUIRED_FIELDS[intent]
    IN  IF req = <<>> THEN {} ELSE {Head(req)}

\* the keys answered one at a time: those, and for the pulse check, whose
\* schema is empty, the email the code fills in itself
AnswerKeys(intent) ==
    IF intent = pulse_check THEN {"email"} ELSE ProbeKeys(intent)

\* The dicts json.loads may return to extract_fields for an intent: the empty
\* one, every schema field filled, every schema field filled but one that
\* is null (an empty guess), or a single key with any value.
ExtractorDicts(intent) ==
    LET req == Range(REQUIRED_FIELDS[intent])
    IN  {EmptyDict}
        \cup {[k \in req |-> Str(s)] : s \in TruthyStrings}
        \cup {[k \in req |-> IF k = hole THEN Null ELSE Str(s)] :
                  s \in TruthyStrings, hole \in ProbeKeys(intent)}
        \cup {[k \in {key} |-> v] : key \in AnswerKeys(intent), v \in Values}

\* What extract_fields does: returns a dict, returns JSON that is no dict
\* (a list, a string, a number), or raises (the call or json.loads fails).
ExtractorOutcomes(intent) ==
    {[kind |-> "dict", value |-> d] : d \in ExtractorDicts(intent)}
    \cup {[kind |-> "non_dict", value |-> EmptyDict],
          [kind |-> "raise",    value |-> EmptyDict]}

NotCalled == [kind |-> "not_called", value |-> EmptyDict]
NotAsked  == [kind |-> "not_called", text |-> <<>>]

\* What requests.post does: a response with a status code, or an exception.
WebhookOutcomes ==
    { [kind |-> "response",  status_code |-> 200],
      [kind |-> "response",  status_code |-> 500],
      [kind |-> "exception", status_code |-> 0] }

-----------------------------------------------------------------------------
(* classify_intent and extract_fields. *)

\* fault: an unknown label falls back to a workflow kind instead of raising
classify_intent_fallback(outcome) ==
    IF outcome.kind = "raise" THEN [raised |-> TRUE, intent |-> None]
    ELSE LET intent == normalise(outcome.text)
         IN  IF intent \notin DOMAIN WEBHOOKS
             THEN [raised |-> FALSE, intent |-> leave_request]
             ELSE [raised |-> FALSE, intent |-> intent]

\* main.py:50-53  the label, or "raise" when the call fails or the label is
\* no key of WEBHOOKS (ValueError)
classify_intent(outcome) ==
    IF outcome.kind = "raise" THEN [raised |-> TRUE, intent |-> None]
    ELSE LET intent == normalise(outcome.text)
         IN  IF intent \notin DOMAIN WEBHOOKS
             THEN [raised |-> TRUE, intent |-> None]
             ELSE [raised |-> FALSE, intent |-> intent]

-----------------------------------------------------------------------------
(* The session store and the steps of route_request. *)

\* main.py:74-78  the default of user_sessions.get
DefaultSession == [intent |-> None, fields |-> EmptyDict, pending_confirmation |-> FALSE]

\* fault: the handler starts from the default session whatever is stored
GetSessionIgnoresStore(store, user) == DefaultSession

\* main.py:74  user_sessions.get(user, default)
GetSession(store, user) ==
    IF user \in DOMAIN store THEN store[user] ELSE DefaultSession

\* main.py:154, 160  user_sessions[user] = session
Put(store, user, session) ==
    [u \in DOMAIN store \cup {user} |-> IF u = user THEN session ELSE store[u]]

\* fault: the deletion empties the store (user_sessions.clear())
DeleteClears(store, user) == [u \in {} |-> store[u]]

\* main.py:90, 104  del user_sessions[user]
Delete(store, user) == [u \in DOMAIN store \ {user} |-> store[u]]

\* fault: the affirmative vocabulary matched as a prefix (startswith)
IsAffirmativePrefix(message) ==
    \E word \in affirmative_messages :
        Len(word) <= Len(message) /\ SubSeq(message, 1, Len(word)) = word

\* main.py:82, 103, 117  which branch a normalised message takes
IsAffirmative(message) == message \in affirmative_messages
IsNegative(message)    == message \in negative_messages
IsCasual(message)      == message \in casual_messages

\* fault: the fields are posted without the source_user marker
PayloadUnmarked(session, user) == session.fields

\* main.py:85-86  payload = session["fields"]; payload["source_user"] = user.
\* payload is the session's own dict, so the stored session changes with it.
Payload(session, user) == Assign(session.fields, "source_user", Str(user))

\* fault: preparing the payload returns the session to awaiting input
StoredAtPostClearsFlag(store, user, session) ==
    Put(store, user, [session EXCEPT !.fields = Payload(session, user),
                                     !.pending_confirmation = FALSE])

\* main.py:84-88  the store as requests.post finds it: session is the stored
\* dict itself, so line 86 has already written source_user into it
StoredAtPost(store, user, session) ==
    Put(store, user, [session EXCEPT !.fields = Payload(session, user)])

\* main.py:88-89  requests.post raised, or raise_for_status did (4xx, 5xx)
DeliveryFailed(outcome) ==
    \/ outcome.kind = "exception"
    \/ outcome.status_code >= 400 /\ outcome.status_code < 600

\* fault: a changed intent is recorded but the accumulated fields are kept
ResolveSessionKeepsFields(session, intent) ==
    IF session.intent # intent
    THEN [intent |-> intent, fields |-> session.fields, pending_confirmation |-> FALSE]
    ELSE session

\* main.py:130-135  a new or changed intent starts from an empty session
ResolveSession(session, intent) ==
    IF session.intent # intent
    THEN [intent |-> intent, fields |-> EmptyDict, pending_confirmation |-> FALSE]
    ELSE session

\* fault: the merge without the truthiness filter (fields.update(new_fields))
MergeUnfiltered(fields, extracted) ==
    [k \in DOMAIN fields \cup DOMAIN extracted |->
        IF k \in DOMAIN extracted THEN extracted[k] ELSE fields[k]]

\* main.py:140  fields.update({k: v for k, v in new_fields.items() if v})
Merge(fields, extracted) ==
    LET kept == {k \in DOMAIN extracted : Truthy(extracted[k])}
    IN  [k \in DOMAIN fields \cup kept |-> IF k \in kept THEN extracted[k] ELSE fields[k]]

\* fault: a failed extraction leaves the session with no fields
AfterExtractionDrops(fields, outcome) ==
    IF outcome.kind = "dict" THEN Merge(fields, outcome.value) ELSE EmptyDict

\* main.py:138-142  the merge, skipped when extract_fields raised or
\* new_fields.items() did (the JSON was no dict)
AfterExtraction(fields, outcome) ==
    IF outcome.kind = "dict" THEN Merge(fields, outcome.value) ELSE fields

\* fault: the email is filled in only when the extractor gave none (setdefault)
AutoFillIfAbsent(fields, intent, user) ==
    IF intent = pulse_check /\ "email" \notin DOMAIN fields
    THEN Assign(fields, "email", Str(user)) ELSE fields

\* main.py:145-146  the pulse check takes the user identity as email
AutoFill(fields, intent, user) ==
    IF intent = pulse_check THEN Assign(fields, "email", Str(user)) ELSE fields

\* fault: the first field of the schema is not checked (off by one)
MissingButFirst(intent, fields) ==
    LET absent(k) == ~Truthy(Get(fields, k))
        required  == REQUIRED_FIELDS[intent]
    IN  IF required = <<>> THEN <<>>
        ELSE SelectSeq(Tail(required), absent)

\* fault: the missing fields are listed from the end of the schema
MissingReversed(intent, fields) ==
    LET absent(k) == ~Truthy(Get(fields, k))
        found     == SelectSeq(REQUIRED_FIELDS[intent], absent)
    IN  [i \in 1..Len(found) |-> found[Len(found) + 1 - i]]

\* main.py:149-150  the schema fields without a truthy value, in schema order
Missing(intent, fields) ==
    LET absent(k) == ~Truthy(Get(fields, k))
    IN  SelectSeq(REQUIRED_FIELDS[intent], absent)

-----------------------------------------------------------------------------
(* route_request: one turn, from the request to the returned body. *)

\* what the turn leaves to be observed, beside the store
Returns(user, message, body, called, answer, extraction, posts, snapshots) ==
    /\ before' = user_sessions
    /\ stored_at_call' = snapshots
    /\ request' = [user |-> user, message |-> message]
    /\ label' = answer
    /\ result' = body
    /\ calls' = called
    /\ new_fields' = extraction
    /\ posted' = posts
    /\ confirm_returned' =
           IF body.status = "confirm" THEN confirm_returned \cup {user} ELSE confirm_returned

\* fault: the session is dropped before the delivery is attempted
SubmitDropsFirst(user, message, session, outcome) ==
    LET intent  == session.intent
        payload == Payload(session, user)
        post    == [url |-> WEBHOOKS[intent], json |-> payload, outcome |-> outcome]
    IN  /\ user_sessions' = Delete(user_sessions, user)
        /\ Returns(user, message,
                   [status |-> IF DeliveryFailed(outcome) THEN "error" ELSE "success"],
                   {"requests.post"}, NotAsked, NotCalled, <<post>>,
                   <<[callee |-> "requests.post", store |-> Delete(user_sessions, user)]>>)

\* main.py:82-102  an affirmative answer: submit, and drop the session on success
Submit(user, message, session, outcome) ==
    LET intent  == session.intent
        payload == Payload(session, user)
        post    == [url |-> WEBHOOKS[intent], json |-> payload, outcome |-> outcome]
        marked  == StoredAtPost(user_sessions, user, session)
    IN  /\ user_sessions' =
               IF DeliveryFailed(outcome) THEN marked ELSE Delete(marked, user)
        /\ Returns(user, message,
                   [status |-> IF DeliveryFailed(outcome) THEN "error" ELSE "success"],
                   {"requests.post"}, NotAsked, NotCalled, <<post>>,
                   <<[callee |-> "requests.post", store |-> marked]>>)

\* fault: the cancellation clears the flag and keeps the session
CancelKeepsSession(user, message) ==
    /\ user_sessions' =
           [user_sessions EXCEPT ![user].pending_confirmation = FALSE]
    /\ Returns(user, message, [status |-> "cancelled"], {}, NotAsked, NotCalled, <<>>, <<>>)

\* main.py:103-108  a negative answer: drop the session.  del raises KeyError
\* when the store holds no session for the user; nothing catches it there, so
\* the turn ends in a fault instead of a result.
Cancel(user, message) ==
    IF user \in DOMAIN user_sessions
    THEN /\ user_sessions' = Delete(user_sessions, user)
         /\ Returns(user, message, [status |-> "cancelled"], {}, NotAsked, NotCalled, <<>>, <<>>)
    ELSE /\ user_sessions' = user_sessions
         /\ Returns(user, message, [status |-> "fault"], {}, NotAsked, NotCalled, <<>>, <<>>)

\* fault: an unrecognised answer is taken for a refusal
WaitingDropsSession(user, message) ==
    /\ user_sessions' = Delete(user_sessions, user)
    /\ Returns(user, message, [status |-> "waiting"], {}, NotAsked, NotCalled, <<>>, <<>>)

\* main.py:109-113  any other answer while awaiting confirmation
Waiting(user, message) ==
    /\ user_sessions' = user_sessions
    /\ Returns(user, message, [status |-> "waiting"], {}, NotAsked, NotCalled, <<>>, <<>>)

\* fault: the session read at the top of the handler is stored on small talk
NeutralStoresSession(user, message) ==
    /\ user_sessions' = Put(user_sessions, user, GetSession(user_sessions, user))
    /\ Returns(user, message, [status |-> "neutral"], {}, NotAsked, NotCalled, <<>>, <<>>)

\* main.py:116-121  greetings and filler
Neutral(user, message) ==
    /\ user_sessions' = user_sessions
    /\ Returns(user, message, [status |-> "neutral"], {}, NotAsked, NotCalled, <<>>, <<>>)

\* main.py:126-127  classify_intent raised
ClassifyError(user, message, answer) ==
    /\ user_sessions' = user_sessions
    /\ Returns(user, message, [status |-> "error"], {"classify_intent"},
               answer, NotCalled, <<>>,
               <<[callee |-> "classify_intent", store |-> user_sessions]>>)

\* main.py:129-165  reset on a changed intent, extract, merge, auto-fill,
\* check completeness, store the session
Advance(user, message, session, answer, intent, extraction) ==
    LET resolved == ResolveSession(session, intent)
        fields   == AutoFill(AfterExtraction(resolved.fields, extraction), intent, user)
        missing  == Missing(intent, fields)
        complete == missing = <<>>
        stored   == [intent |-> resolved.intent,
                     fields |-> fields,
                     pending_confirmation |->
                         IF complete THEN TRUE ELSE resolved.pending_confirmation]
    IN  /\ user_sessions' = Put(user_sessions, user, stored)
        /\ Returns(user, message,
                   IF complete
                   THEN [status |-> "confirm", intent |-> intent]
                   ELSE [status |-> "incomplete", intent |-> intent, missing |-> missing],
                   {"classify_intent", "extract_fields"}, answer, extraction, <<>>,
                   <<[callee |-> "classify_intent", store |-> user_sessions],
                     [callee |-> "extract_fields",  store |-> user_sessions]>>)

\* The environment's catalogues with the code applied to them, as tables.
Normalised == [raw \in RawMessages |-> normalise(raw)]
Classified == [answer \in ClassifierOutcomes |-> classify_intent(answer)]
Extractions == [intent \in DOMAIN WEBHOOKS |-> ExtractorOutcomes(intent)]

\* fault: the answer vocabularies are tested before the pending flag
HandleVocabularyFirst(user, message, session) ==
    IF IsNegative(message)
    THEN Cancel(user, message)
    ELSE IF session.pending_confirmation
    THEN IF IsAffirmative(message)
         THEN \E outcome \in WebhookOutcomes : Submit(user, message, session, outcome)
         ELSE Waiting(user, message)
    ELSE IF IsCasual(message)
    THEN Neutral(user, message)
    ELSE \E answer \in ClassifierOutcomes :
             LET classified == Classified[answer]
             IN  IF classified.raised
                 THEN ClassifyError(user, message, answer)
                 ELSE \E extraction \in Extractions[classified.intent] :
                          Advance(user, message, session, answer,
                                  classified.intent, extraction)

\* main.py:80-165  the handler from the pending test on; `session` is what
\* line 74 read
Handle(user, message, session) ==
    IF session.pending_confirmation
    THEN IF IsAffirmative(message)
         THEN \E outcome \in WebhookOutcomes : Submit(user, message, session, outcome)
         ELSE IF IsNegative(message)
         THEN Cancel(user, message)
         ELSE Waiting(user, message)
    ELSE IF IsCasual(message)
    THEN Neutral(user, message)
    ELSE \E answer \in ClassifierOutcomes :
             LET classified == Classified[answer]
             IN  IF classified.raised
                 THEN ClassifyError(user, message, answer)
                 ELSE \E extraction \in Extractions[classified.intent] :
                          Advance(user, message, session, answer,
                                  classified.intent, extraction)

\* main.py:70-165  one turn, taken in one piece
route_request(user, raw) ==
    /\ Handle(user, Normalised[raw], GetSession(user_sessions, user))
    /\ session_read' = [session |-> GetSession(user_sessions, user), overlapped |-> FALSE]
    /\ UNCHANGED <<accepted, running>>

-----------------------------------------------------------------------------
(* The specification. *)

\* main.py:30  the store is empty when the process starts; no turn yet
Init ==
    /\ user_sessions = [u \in {} |-> DefaultSession]
    /\ before = [u \in {} |-> DefaultSession]
    /\ request = [user |-> "", message |-> <<>>]
    /\ result = [status |-> "none"]
    /\ calls = {}
    /\ label = NotAsked
    /\ new_fields = NotCalled
    /\ posted = <<>>
    /\ stored_at_call = <<>>
    /\ confirm_returned = {}
    /\ accepted = {}
    /\ running = {}
    /\ session_read = [session |-> DefaultSession, overlapped |-> FALSE]

\* Conversations are taken one after the other: a user's turn is taken when
\* no other user has a session in the store.
Serial(user) == DOMAIN user_sessions \subseteq {user}

Next ==
    \E user \in Users, raw \in RawMessages :
        Serial(user) /\ route_request(user, raw)

Spec == Init /\ [][Next]_vars

\* The turns of the two users interleave freely.  To keep that state space
\* small, the collaborators' answers are narrowed: the classifier answers a
\* canonical label or raises, the extractor's values are all the first value
\* of the pool, and the webhook answers 200 or raises.
PlainAnswers ==
    /\ label.kind = "content" => label.text \in {onboarding, pulse_check}
    /\ new_fields.kind # "non_dict"
    /\ new_fields.kind = "dict" =>
           \A k \in DOMAIN new_fields.value : new_fields.value[k] = Str("v1")
    /\ \A i \in 1..Len(posted) :
           posted[i].outcome.kind = "response" => posted[i].outcome.status_code = 200

NextUsers ==
    \E user \in Users, raw \in RawMessages :
        route_request(user, raw) /\ PlainAnswers'

SpecUsers == Init /\ [][NextUsers]_vars

\* Requests that overlap in time.  The server accepts requests while handlers
\* are in progress; the event loop starts the handler of an accepted request
\* and runs it up to its next suspension point.

\* a handler invocation that calls a collaborator: requests.post (main.py:88)
\* or classify_intent (main.py:125)
CallsCollaborator(task) ==
    LET message == Normalised[task.raw]
    IN  IF task.session.pending_confirmation
        THEN IsAffirmative(message)
        ELSE ~IsCasual(message)

\* fault: the collaborator calls are awaited, so the loop may start another
\* handler while one waits for an answer
YieldsAtCall(task) == CallsCollaborator(task)

\* main.py:70-165  route_request is a coroutine without any await: the
\* collaborator calls block, and the handler never yields the event loop
Yields(task) == FALSE

\* the overlapping requests are those of one user
LoopUsers == {"alice@co"}

\* a request reaches the server
Arrive(user, raw) ==
    LET req == [user |-> user, raw |-> raw]
    IN  /\ Cardinality(accepted) < MaxAccepted
        /\ req \notin accepted
        /\ accepted' = accepted \cup {req}
        /\ running' = {[task EXCEPT !.overlapped = task.overlapped \/ task.user = user] :
                          task \in running}
        /\ UNCHANGED <<turn_vars, session_read>>

\* main.py:70-78  the event loop starts the handler of an accepted request,
\* which reads the user's session, when no handler in progress holds the loop
Begin(req) ==
    /\ req \in accepted
    /\ \A task \in running : Yields(task)
    /\ accepted' = accepted \ {req}
    /\ running' = running \cup
           {[user       |-> req.user,
             raw        |-> req.raw,
             session    |-> GetSession(user_sessions, req.user),
             overlapped |-> \E other \in accepted \ {req} : other.user = req.user]}
    /\ UNCHANGED <<turn_vars, session_read>>

\* main.py:80-165  the handler runs from the session it read to its return
Finish(task) ==
    /\ task \in running
    /\ Handle(task.user, Normalised[task.raw], task.session)
    /\ running' = running \ {task}
    /\ session_read' = [session |-> task.session, overlapped |-> task.overlapped]
    /\ UNCHANGED accepted
    /\ PlainAnswers'

NextLoop ==
    \/ \E user \in LoopUsers, raw \in RawMessages : Arrive(user, raw)
    \/ \E req \in accepted : Begin(req)
    \/ \E task \in running : Finish(task)

SpecLoop == Init /\ [][NextLoop]_vars

-----------------------------------------------------------------------------
(* Vocabulary of the properties: the last turn, as the state records it. *)

WorkflowKinds == {onboarding, leave_request, pulse_check}

TurnTaken  == result.status # "none"
caller     == request.user
HadSession == caller \in DOMAIN before
HasSession == caller \in DOMAIN user_sessions
WasPending == HadSession /\ before[caller].pending_confirmation

\* the session the turn started from, and the fields it held
SessionBefore == IF HadSession THEN before[caller]
                 ELSE [intent |-> None, fields |-> EmptyDict, pending_confirmation |-> FALSE]
FieldsBefore  == SessionBefore.fields

\* every field of the schema of `intent` is held by `fields` with a truthy value
HasAllRequired(intent, fields) ==
    \A i \in 1..Len(REQUIRED_FIELDS[intent]) :
        LET k == REQUIRED_FIELDS[intent][i]
        IN  k \in DOMAIN fields /\ fields[k].tag = "str" /\ fields[k].val # ""

\* the classifier was asked and its answer names no workflow kind, or it raised
ClassificationFailed ==
    \/ label.kind = "raise"
    \/ label.kind = "content" /\ normalise(label.text) \notin WorkflowKinds

\* the classifier was asked and its answer names this workflow kind
ClassifiedAs(intent) == label.kind = "content" /\ normalise(label.text) = intent

ReachedExtraction == new_fields.kind # "not_called"
ExtractionFailed  == new_fields.kind \in {"raise", "non_dict"}

\* every field held comes from this turn: from the extractor's answer, or
\* from the pulse check's email auto-fill
OnlyFromThisTurn(session) ==
    \A k \in DOMAIN session.fields :
        \/ /\ new_fields.kind = "dict"
           /\ k \in DOMAIN new_fields.value
           /\ session.fields[k] = new_fields.value[k]
        \/ /\ session.intent = pulse_check
           /\ k = "email"
           /\ session.fields[k] = Str(caller)

\* every field of `old` is held by `new` with the same value
Keeps(old, new) == \A k \in DOMAIN old : k \in DOMAIN new /\ new[k] = old[k]

-----------------------------------------------------------------------------
(* Properties. *)

\* C1: after every turn, every stored session with pending_confirmation set
\* has a workflow kind as its intent and holds every field of that kind's
\* schema with a truthy value.
C1_PendingImpliesComplete ==
    \A u \in DOMAIN user_sessions :
        user_sessions[u].pending_confirmation =>
            /\ user_sessions[u].intent \in WorkflowKinds
            /\ HasAllRequired(user_sessions[u].intent, user_sessions[u].fields)

\* a turn has just returned `confirm` for an onboarding with its eight fields
C1_Witness ==
    /\ result.status = "confirm"
    /\ HasSession
    /\ user_sessions[caller].pending_confirmation
    /\ user_sessions[caller].intent = onboarding

\* C2: the webhook is called only in a turn that found the user's session
\* awaiting confirmation and whose normalised message is affirmative; an
\* earlier turn of that user returned `confirm`; and the payload posted, to the
\* session's webhook, holds every field of the schema with a truthy value.
C2_WebhookOnlyAfterConfirmation ==
    (posted # <<>> \/ "requests.post" \in calls) =>
        /\ Len(posted) = 1
        /\ WasPending
        /\ request.message \in affirmative_messages
        /\ caller \in confirm_returned
        /\ posted[1].url = WEBHOOKS[before[caller].intent]
        /\ HasAllRequired(before[caller].intent, posted[1].json)

\* a leave request has just been delivered
C2_Witness ==
    /\ posted # <<>>
    /\ result.status = "success"
    /\ before[caller].intent = leave_request

\* C3: in a turn whose message is classified as a workflow kind other than the
\* intent of the session it started from (an unset intent included), the
\* session stored at the end has the new intent and holds no field but those
\* of this turn: nothing accumulated under the previous intent survives, and
\* the session awaits confirmation only if this turn's fields complete it.
C3_IntentChangeResets ==
    \A kind \in WorkflowKinds :
        (ClassifiedAs(kind) /\ SessionBefore.intent # kind) =>
            /\ HasSession
            /\ user_sessions[caller].intent = kind
            /\ OnlyFromThisTurn(user_sessions[caller])
            /\ user_sessions[caller].pending_confirmation =>
                   HasAllRequired(kind, user_sessions[caller].fields)

\* a partly filled leave request has just been abandoned for an onboarding
C3_Witness ==
    /\ ClassifiedAs(onboarding)
    /\ SessionBefore.intent = leave_request
    /\ FieldsBefore # EmptyDict
    /\ HasSession

\* the delivery raised, or the response carried an error status
DeliveryFailure(outcome) ==
    outcome.kind = "exception" \/ outcome.status_code \in 400..599

\* C4: when an affirmative answer meets a failing delivery, the result is
\* `error` and the session stays in the store, still awaiting confirmation,
\* with the same intent and every field it had; and an affirmative answer to a
\* session awaiting confirmation always attempts the delivery, so the next one
\* attempts it again.
C4_FailedDeliveryKeepsSession ==
    /\ (posted # <<>> /\ DeliveryFailure(posted[1].outcome)) =>
           /\ result.status = "error"
           /\ HasSession
           /\ user_sessions[caller].pending_confirmation
           /\ user_sessions[caller].intent = SessionBefore.intent
           /\ Keeps(FieldsBefore, user_sessions[caller].fields)
           /\ HasAllRequired(SessionBefore.intent, user_sessions[caller].fields)
    /\ (WasPending /\ request.message \in affirmative_messages) => posted # <<>>

\* a delivery has just failed for a session that an earlier attempt had
\* already marked with source_user: a retried confirmation
C4_Witness ==
    /\ posted # <<>>
    /\ result.status = "error"
    /\ "source_user" \in DOMAIN FieldsBefore
    /\ SessionBefore.intent = leave_request

\* C5: when classification fails (the call raises, or the label is no
\* workflow kind), the turn returns `error`, the extractor is not called and
\* the store is what it was before the turn.
C5_ClassificationFailureIsInert ==
    ClassificationFailed =>
        /\ result.status = "error"
        /\ new_fields.kind = "not_called"
        /\ "extract_fields" \notin calls
        /\ posted = <<>>
        /\ user_sessions = before

\* an unknown label has just been answered for a user with a partly filled session
C5_Witness ==
    /\ label.kind = "content"
    /\ ClassificationFailed
    /\ HadSession
    /\ FieldsBefore # EmptyDict

\* C6 as claimed: in every turn that reaches extraction, a failed extraction
\* leaves a `confirm` or `incomplete` result and every field the user's
\* session held before the turn still held with the same value.
C6_AsClaimed ==
    (ReachedExtraction /\ ExtractionFailed) =>
        /\ result.status \in {"confirm", "incomplete"}
        /\ HasSession
        /\ Keeps(FieldsBefore, user_sessions[caller].fields)

\* C6: in every turn that reaches extraction, a failed extraction leaves a
\* `confirm` or `incomplete` result and a stored session; and when the
\* classified intent is the intent of the session the turn started from,
\* every field that session held is still held with the same value.
C6_FailedExtractionKeepsFields ==
    (ReachedExtraction /\ ExtractionFailed) =>
        /\ result.status \in {"confirm", "incomplete"}
        /\ HasSession
        /\ (user_sessions[caller].intent = SessionBefore.intent) =>
               Keeps(FieldsBefore, user_sessions[caller].fields)

\* an extraction has just failed on a partly filled session of the same intent
C6_Witness ==
    /\ ReachedExtraction
    /\ ExtractionFailed
    /\ HasSession
    /\ user_sessions[caller].intent = SessionBefore.intent
    /\ FieldsBefore # EmptyDict

\* the fields the merge of the last turn started from: those of the session
\* the turn found, or none when the intent changed
MergeBase ==
    IF HasSession /\ SessionBefore.intent = user_sessions[caller].intent
    THEN FieldsBefore ELSE EmptyDict

\* the key the pulse check's auto-fill writes after the merge
AutoFilled(k) == HasSession /\ user_sessions[caller].intent = pulse_check /\ k = "email"

\* the last turn's merge removed no key, wrote every truthy value of the
\* extractor's answer, wrote none of its falsy values, and touched nothing else
C7_Merged ==
    new_fields.kind = "dict" =>
        LET base == MergeBase
            now  == user_sessions[caller].fields
            nf   == new_fields.value
        IN  /\ HasSession
            /\ \A k \in DOMAIN base : k \in DOMAIN now
            /\ \A k \in DOMAIN nf : ~AutoFilled(k) =>
                   IF nf[k].tag = "str" /\ nf[k].val # ""
                   THEN k \in DOMAIN now /\ now[k] = nf[k]
                   ELSE IF k \in DOMAIN base
                        THEN k \in DOMAIN now /\ now[k] = base[k]
                        ELSE k \notin DOMAIN now
            /\ \A k \in DOMAIN now : (~AutoFilled(k) /\ k \notin DOMAIN nf) =>
                   k \in DOMAIN base /\ now[k] = base[k]

\* a turn that merges, under the same intent, the answer the previous turn of
\* the same user merged leaves the fields as they were
C7_MergedAgain ==
    ( /\ new_fields.kind = "dict"
      /\ new_fields' = new_fields
      /\ request'.user = request.user
      /\ caller \in DOMAIN user_sessions
      /\ caller \in DOMAIN user_sessions'
      /\ user_sessions'[caller].intent = user_sessions[caller].intent )
    => user_sessions'[caller].fields = user_sessions[caller].fields

\* C7: the merge is additive and idempotent: it never removes a key, never
\* writes a falsy value (a falsy extracted value leaves the key as it was, a
\* truthy one replaces it), and merging the same answer in two consecutive
\* turns of the same intent gives the fields that merging it once gave.
C7_MergeAdditiveIdempotent == [][C7_Merged' /\ C7_MergedAgain]_vars

\* an answer with truthy values and a null one has just been merged a second
\* time into the session, which it left as it was
C7_Witness ==
    /\ new_fields.kind = "dict"
    /\ \E k \in DOMAIN new_fields.value : Truthy(new_fields.value[k])
    /\ \E k \in DOMAIN new_fields.value : ~Truthy(new_fields.value[k])
    /\ HadSession /\ HasSession
    /\ SessionBefore.intent = leave_request
    /\ FieldsBefore # EmptyDict
    /\ user_sessions = before

\* C8: while the session awaits confirmation, a message that after strip and
\* lower is in neither vocabulary returns `waiting` and leaves the store as
\* it was; no collaborator is called.
C8_OtherTextWaits ==
    (WasPending /\ request.message \notin (affirmative_messages \cup negative_messages)) =>
        /\ result.status = "waiting"
        /\ user_sessions = before
        /\ calls = {}
        /\ posted = <<>>

\* "submit leave", which starts with an affirmative word, has just been
\* answered to a session awaiting confirmation
C8_Witness ==
    /\ WasPending
    /\ request.message = <<"s","u","b","m","i","t"," ","l","e","a","v","e">>
    /\ result.status = "waiting"
    /\ before[caller].intent = onboarding

\* a negative answer to a session awaiting confirmation returns `cancelled`,
\* calls nothing and removes the session
C9_Cancelled ==
    (WasPending /\ request.message \in negative_messages) =>
        /\ result.status = "cancelled"
        /\ posted = <<>>
        /\ calls = {}
        /\ ~HasSession

\* the turn of the same user that follows a cancellation is not taken for an
\* answer, and the session it stores holds only its own fields
C9_FreshAfter ==
    (result.status = "cancelled" /\ request'.user = request.user) =>
        /\ result'.status \in {"neutral", "error", "confirm", "incomplete"}
        /\ posted' = <<>>
        /\ HasSession' => OnlyFromThisTurn(user_sessions[caller])'

\* C9: a negative answer while awaiting confirmation returns `cancelled`
\* without calling the webhook and removes the session; the user's next
\* message starts from the default session and none of the cancelled fields
\* reappear.
C9_CancelRemovesSession == [][C9_Cancelled' /\ C9_FreshAfter]_vars

\* a complete leave request has just been cancelled
C9_Witness ==
    /\ result.status = "cancelled"
    /\ WasPending
    /\ SessionBefore.intent = leave_request
    /\ ~HasSession

\* C10: when the session is not awaiting confirmation, a small-talk message
\* returns `neutral`, calls no collaborator and leaves the store as it was:
\* no session is created, a partly filled one keeps its intent and fields.
C10_SmallTalkIsInert ==
    (TurnTaken /\ ~WasPending /\ request.message \in casual_messages) =>
        /\ result.status = "neutral"
        /\ calls = {}
        /\ label.kind = "not_called"
        /\ new_fields.kind = "not_called"
        /\ user_sessions = before

\* "Hello " has just been sent by a user with a partly filled session
C10_Witness ==
    /\ result.status = "neutral"
    /\ request.message = <<"h","e","l","l","o">>
    /\ HadSession
    /\ FieldsBefore # EmptyDict
    /\ ~before[caller].pending_confirmation

\* C11: after a turn whose message is classified as pulse_check, the stored
\* session's email field is the user identity, whatever the extractor
\* answered for email and also when the extraction failed.
C11_PulseCheckEmailIsUser ==
    ClassifiedAs(pulse_check) =>
        /\ HasSession
        /\ "email" \in DOMAIN user_sessions[caller].fields
        /\ user_sessions[caller].fields["email"] = Str(caller)

\* the extractor has just proposed another, non-empty address for a pulse check
C11_Witness ==
    /\ ClassifiedAs(pulse_check)
    /\ new_fields.kind = "dict"
    /\ "email" \in DOMAIN new_fields.value
    /\ Truthy(new_fields.value["email"])
    /\ new_fields.value["email"] # Str(caller)
    /\ HasSession

\* C12: an affirmative answer whose delivery succeeds posts, to the webhook
\* of the session's intent, the session's fields plus source_user set to the
\* user identity; the result is `success` and the user's session is gone.
C12_SuccessfulSubmission ==
    (posted # <<>> /\ ~DeliveryFailure(posted[1].outcome)) =>
        LET payload == posted[1].json
        IN  /\ Len(posted) = 1
            /\ WasPending
            /\ posted[1].url = WEBHOOKS[SessionBefore.intent]
            /\ DOMAIN payload = DOMAIN FieldsBefore \cup {"source_user"}
            /\ payload["source_user"] = Str(caller)
            /\ \A k \in DOMAIN FieldsBefore \ {"source_user"} : payload[k] = FieldsBefore[k]
            /\ result.status = "success"
            /\ ~HasSession

\* an onboarding has just been delivered with its eight fields and the marker
C12_Witness ==
    /\ posted # <<>>
    /\ posted[1].outcome.kind = "response"
    /\ posted[1].outcome.status_code = 200
    /\ SessionBefore.intent = onboarding
    /\ result.status = "success"

\* C14: at the moment the classifier, the extractor or the webhook is called,
\* the user's stored session is what it was at the start of the turn: present
\* or absent as before, with the same intent, fields and flag.
C14_NoMutationBeforeCall ==
    \A i \in 1..Len(stored_at_call) :
        LET found == stored_at_call[i].store
        IN  /\ (caller \in DOMAIN found) <=> HadSession
            /\ HadSession => found[caller] = before[caller]

\* C16: every value held in the fields of any stored session is truthy, the
\* pulse check's email and the source_user marker included.
C16_StoredValuesTruthy ==
    \A u \in DOMAIN user_sessions :
        \A k \in DOMAIN user_sessions[u].fields :
            /\ user_sessions[u].fields[k].tag = "str"
            /\ user_sessions[u].fields[k].val # ""

\* the statuses a turn can return (main.py:93, 99, 106, 111, 119, 127, 156, 162)
ResultStatuses ==
    {"success", "error", "cancelled", "waiting", "neutral", "confirm", "incomplete"}

\* C17: every turn ends with one result whose status is one of the seven
\* statuses, never with a fault; a turn that deletes the caller's session
\* started with one; and an affirmative or negative message from a user with
\* no session awaiting confirmation deletes nothing and posts nothing.
C17_StructuredResult ==
    TurnTaken =>
        /\ result.status \in ResultStatuses
        /\ result.status \in {"success", "cancelled"} => HadSession /\ ~HasSession
        /\ (DOMAIN before \ DOMAIN user_sessions) \subseteq {caller}
        /\ (~WasPending /\ request.message \in (affirmative_messages \cup negative_messages)) =>
               /\ posted = <<>>
               /\ "requests.post" \notin calls
               /\ DOMAIN before \subseteq DOMAIN user_sessions

\* "no" has just been sent by a user with no session: it was treated as new
\* content and came back incomplete
C17_Witness ==
    /\ ~HadSession
    /\ request.message = <<"n", "o">>
    /\ result.status = "incomplete"
    /\ HasSession

\* C18: a turn that starts from a session awaiting confirmation calls neither
\* classify_intent nor extract_fields, whatever the message.
C18_PendingNeverAsksOracle ==
    WasPending =>
        /\ calls \cap {"classify_intent", "extract_fields"} = {}
        /\ label = NotAsked
        /\ new_fields = NotCalled
        /\ \A i \in 1..Len(stored_at_call) : stored_at_call[i].callee = "requests.post"

\* small talk has just been sent to a session awaiting confirmation
C18_Witness ==
    /\ WasPending
    /\ request.message \in casual_messages
    /\ result.status = "waiting"
    /\ calls = {}

\* the schema fields of the caller's stored session that lack a truthy value
C19_Lacking ==
    LET session == user_sessions[caller]
    IN  {k \in Range(REQUIRED_FIELDS[session.intent]) :
            ~(k \in DOMAIN session.fields /\ Truthy(session.fields[k]))}

\* the position of a field in the schema of the caller's stored session
C19_Position(k) ==
    LET required == REQUIRED_FIELDS[user_sessions[caller].intent]
    IN  CHOOSE i \in 1..Len(required) : required[i] = k

\* C19: a turn that reaches the completeness check stores the session; it
\* returns `confirm` with the flag set exactly when no schema field lacks a
\* truthy value, and otherwise `incomplete` with the flag clear, naming
\* exactly the lacking schema fields, each once, in the schema's order.
C19_CompletenessCheck ==
    ReachedExtraction =>
        /\ HasSession
        /\ ClassifiedAs(user_sessions[caller].intent)
        /\ IF C19_Lacking = {}
           THEN /\ result.status = "confirm"
                /\ user_sessions[caller].pending_confirmation
           ELSE /\ result.status = "incomplete"
                /\ ~user_sessions[caller].pending_confirmation
                /\ Range(result.missing) = C19_Lacking
                /\ \A i, j \in 1..Len(result.missing) :
                       i < j => C19_Position(result.missing[i]) < C19_Position(result.missing[j])

\* an onboarding turn has just come back incomplete with several fields named
C19_Witness ==
    /\ ReachedExtraction
    /\ result.status = "incomplete"
    /\ result.intent = onboarding
    /\ Len(result.missing) > 1
    /\ new_fields.kind = "dict"

\* C20: a turn that starts from a session awaiting confirmation either keeps
\* it, still awaiting confirmation with the same intent, or removes it; it
\* is removed exactly by a successful submission or a cancellation.
C20_PendingUntilRemoved ==
    WasPending =>
        /\ HasSession =>
               /\ user_sessions[caller].pending_confirmation
               /\ user_sessions[caller].intent = before[caller].intent
               /\ result.status \in {"error", "waiting"}
        /\ ~HasSession =>
               \/ result.status = "success" /\ posted # <<>> /\ ~DeliveryFailure(posted[1].outcome)
               \/ result.status = "cancelled" /\ request.message \in negative_messages

\* an affirmative answer has just met a delivery that raised: the session is
\* retained and still awaits confirmation
C20_Witness ==
    /\ WasPending
    /\ posted # <<>>
    /\ posted[1].outcome.kind = "exception"
    /\ HasSession
    /\ user_sessions[caller].pending_confirmation

\* C13: a turn taken for one user leaves the stored session of every other
\* user as it was: present or absent as before, with the same intent, fields
\* and flag.
C13_OtherUsersUntouched ==
    \A u \in Users \ {caller} :
        /\ (u \in DOMAIN user_sessions) <=> (u \in DOMAIN before)
        /\ u \in DOMAIN before => user_sessions[u] = before[u]

\* a user's session has just been removed by that user's turn while another
\* user's session was awaiting confirmation
C13_Witness ==
    /\ HadSession
    /\ ~HasSession
    /\ \E u \in Users \ {caller} :
           /\ u \in DOMAIN before
           /\ before[u].pending_confirmation
           /\ u \in DOMAIN user_sessions

\* C15: turns of one user are serialised.  No two handlers of one user are in
\* progress at once; the session a handler in progress has read is still the
\* one the store holds; and a finished turn decided on the session the store
\* held when it wrote, so it is the turn route_request takes in one piece from
\* that store, and the run equals the turns taken one after the other in the
\* order they finished.
C15_TurnsSerialised ==
    /\ \A t1, t2 \in running : t1.user = t2.user => t1 = t2
    /\ \A task \in running : task.session = GetSession(user_sessions, task.user)
    /\ TurnTaken => session_read.session = GetSession(before, caller)

\* a confirmation has just been submitted while a refusal of the same user,
\* which arrived during the turn, waits for its handler
C15_Witness ==
    /\ result.status = "success"
    /\ session_read.overlapped
    /\ session_read.session.pending_confirmation
    /\ \E req \in accepted :
           req.user = caller /\ Normalised[req.raw] \in negative_messages

====
